---- MODULE Spec2Model ----
(***************************************************************************)
(* SkillSwap backend: the four /auth routes of backend/server.js and the   *)
(* three /api/users controllers of backend/controllers/userControllers.js, *)
(* as concurrent request handlers over the shared stores.                  *)
(*                                                                         *)
(* Every `await` of a handler is one atomic step of the request: the store *)
(* call it awaits, followed by the synchronous code up to the next await   *)
(* or up to the response.  Requests interleave freely between steps.       *)
(*                                                                         *)
(* A store call has three kinds of outcome: it succeeds, it resolves with  *)
(* an error object ("error"), or its promise rejects ("throw").  A call    *)
(* that does not succeed has no effect on the store.                       *)
(***************************************************************************)
EXTENDS Integers, Sequences, FiniteSets, TLC

\* Number of HTTP requests served in one behaviour.
MaxReq == 2

Requests == 1..MaxReq

\* Opaque identifiers handed out by the identity store, and the access
\* token the store issues for each of them.
IdNames == <<"u1", "u2", "u3", "u4", "u5", "u6">>
TokenNames == <<"t1", "t2", "t3", "t4", "t5", "t6">>
NoId == "none"
NoToken == ""
BogusToken == "forged"

\* JavaScript null, and a key that is not in a request body.
Null == "null"
Absent == "<absent>"

VARIABLES
    identities,   \* identity store: set of [id, email, password]
    nextId,       \* index in IdNames of the next identity id
    profiles,     \* table profiles: set of rows
    users,        \* legacy table users: sequence of rows
    now,          \* wall clock read by new Date()
    issued,       \* access tokens delivered to clients in responses
    req           \* the requests: inputs, position, locals, response

vars == <<identities, nextId, profiles, users, now, issued, req>>

----------------------------------------------------------------------------
\* Outcomes of a call to the managed store, and of a pool.query / bcrypt /
\* jwt call of the legacy controllers (these reject, they return no error).
Outcomes == {"ok", "error", "throw"}
LegacyOutcomes == {"ok", "throw"}

\* The keys a request body may carry.
BodyKeys == {"username", "full_name", "avatar_url", "role", "id", "email"}
EmptyBody == [k \in BodyKeys |-> Absent]

\* x || null
OrNull(x) == IF x = "" \/ x = Absent THEN Null ELSE x

\* -------------------------------------------------------------- store ----
IdentityByEmail(email) == {u \in identities : u.email = email}
IdentityById(id) == {u \in identities : u.id = id}

TokenOf(id) == TokenNames[CHOOSE i \in 1..Len(IdNames) : IdNames[i] = id]

\* The user an access token resolves to: the token must be one the store
\* issued for an identity that still exists.
TokenOwner(token) ==
    {u \in identities : TokenOf(u.id) = token}

\* auth.admin.createUser: email is unique.
CanCreateUser(email) == IdentityByEmail(email) = {}

\* auth.signInWithPassword: the identities the credentials authenticate.
SignInWithPassword(email, password) ==
    {u \in identities : u.email = email /\ u.password = password}

\* from('profiles').select('*').eq('id', id).single(): the row, if exactly
\* one matches; otherwise data is null and error is set.
SelectSingle(id) ==
    LET rows == {p \in profiles : p.id = id}
    IN  IF Cardinality(rows) = 1 THEN <<CHOOSE p \in rows : TRUE>> ELSE <<>>

NewProfile(id, username, full_name, avatar_url) ==
    [id |-> id, username |-> username, full_name |-> OrNull(full_name),
     avatar_url |-> OrNull(avatar_url), role |-> "user", updated_at |-> 0]

\* from('profiles').update(updates).eq('id', id): every row with that id
\* gets the columns named in updates.  A column the table does not have is an
\* error of the call.
Columns == {"id", "username", "full_name", "avatar_url", "role", "updated_at"}
UnknownColumn(updates) ==
    \E k \in DOMAIN updates : k \notin Columns /\ updates[k] # Absent
\* Mutant: a column the update does not name takes the old value of the
\* column before it.
UpdateRowShift(row, updates, stamp) ==
    LET prev == [username |-> "role", full_name |-> "username",
                 avatar_url |-> "full_name", role |-> "avatar_url", id |-> "id"]
    IN  [k \in Columns |->
           IF k = "updated_at" THEN stamp
           ELSE IF updates[k] # Absent THEN updates[k] ELSE row[prev[k]]]
UpdateRow(row, updates, stamp) ==
    [k \in Columns |->
       IF k = "updated_at" THEN stamp
       ELSE IF updates[k] # Absent THEN updates[k] ELSE row[k]]
\* Mutant: the filter matches no row.
StoreUpdateNoMatch(rows, id, updates, stamp) == rows
StoreUpdate(rows, id, updates, stamp) ==
    {IF p.id = id THEN UpdateRow(p, updates, stamp) ELSE p : p \in rows}

\* ------------------------------------------------------- legacy store ----
\* bcrypt.hash(password, 10) with a random salt, and bcrypt.compare.
Salts == {"s1", "s2"}
Hash(password, salt) == <<"bcrypt", salt, password>>
Compare(password, hash) == hash = Hash(password, hash[2])

\* SELECT * FROM users WHERE email=$1
SelectByEmail(email) == SelectSeq(users, LAMBDA u : u.email = email)

\* SELECT id, name, skills FROM users
Listing(rows) ==
    [i \in 1..Len(rows) |->
       [id |-> rows[i].id, name |-> rows[i].name, skills |-> rows[i].skills]]

\* ------------------------------------------------------------ helpers ----
\* h.split(' ') on a header given as its space-free pieces and its spaces.
RECURSIVE Split(_)
Split(h) ==
    IF h = <<>> THEN <<"">>
    ELSE IF Head(h) = " " THEN <<"">> \o Split(Tail(h))
    ELSE <<Head(h)>> \o Tail(Split(Tail(h)))

\* Mutant: the scheme is not compared with 'Bearer'.
getBearerTokenAnyScheme(header) ==
    LET parts == Split(header)
    IN  IF Len(parts) = 2 THEN parts[2] ELSE Null
getBearerToken(header) ==
    LET parts == Split(header)
    IN  IF Len(parts) = 2 /\ parts[1] = "Bearer" THEN parts[2] ELSE Null

\* !token
Falsy(token) == token = Null \/ token = ""

\* const allowed = [...]; for (const k of allowed) if (k in body) ...
allowed == {"username", "full_name", "avatar_url", "role"}
\* Mutant: the body is passed on whole.
BuildUpdatesUnfiltered(body) == body
BuildUpdates(body) ==
    [k \in DOMAIN body |->
       IF k \in allowed /\ body[k] # Absent THEN body[k] ELSE Absent]

\* Object.keys(updates)
Keys(updates) == {k \in DOMAIN updates : updates[k] # Absent}

\* The row holds every value the update names.
Carries(row, updates) ==
    \A k \in Keys(updates) \cap Columns : row[k] = updates[k]

\* ------------------------------------------------------------ requests ----

IdleReq ==
    [kind |-> "none", pc |-> "idle",
     email |-> "", password |-> "", username |-> "",
     full_name |-> "", avatar_url |-> "",
     header |-> <<>>, body |-> EmptyBody,
     userId |-> NoId, updates |-> EmptyBody, stamp |-> 0,
     insertError |-> "",
     nresp |-> 0, status |-> 0, error |-> "",
     respUserId |-> NoId, respEmail |-> "", session |-> NoToken,
     profile |-> <<>>, token |-> NoToken, rows |-> <<>>,
     \* bookkeeping, read by no handler: the profile id the request read
     \* and wrote, the outcome of its compensating delete, whether its
     \* update matched a row, whether that row already carried its values,
     \* and whether another update of the row came before its re-fetch
     readId |-> NoId, wroteId |-> NoId, rollback |-> "",
     matched |-> FALSE, repeat |-> FALSE, raced |-> FALSE]

\* A request whose response has been sent, and one whose handler ended
\* with an uncaught rejection: Express sends no response for it.
ClosedReq == [IdleReq EXCEPT !.pc = "closed"]
HungReq == [IdleReq EXCEPT !.pc = "uncaught"]

\* res.status(s).json({error: e})
Respond(r, s, e) ==
    [req[r] EXCEPT !.pc = "done", !.status = s, !.error = e,
                   !.nresp = req[r].nresp + 1]

\* The catch block of the /auth handlers.
Respond500(r) == Respond(r, 500, "internal server error")

SignupInputs ==
    { [email |-> "a@x", password |-> "pw1", username |-> "alice",
       full_name |-> "", avatar_url |-> ""],
      [email |-> "b@x", password |-> "pw1", username |-> "bob",
       full_name |-> "Bob", avatar_url |-> "pic"],
      [email |-> "a@x", password |-> "pw1", username |-> "",
       full_name |-> "", avatar_url |-> ""] }

LoginInputs ==
    { [email |-> "a@x", password |-> "pw1"],
      [email |-> "a@x", password |-> "pw2"],
      [email |-> "a@x", password |-> ""] }

\* A response just written is delivered before any other handler resumes:
\* delivery touches nothing but the request itself.
NoneDone == \A q \in Requests : req[q].pc # "done"

\* A request arrives; slots are taken in order.
Started(r) == req[r].pc # "idle"
CanStart(r) ==
    /\ NoneDone
    /\ ~Started(r)
    /\ IF r = 1 THEN TRUE ELSE Started(r - 1)

\* A handler resumes after the await it is suspended at.
At(r, kind, pc) == NoneDone /\ req[r].kind = kind /\ req[r].pc = pc

\* The response reaches the client, with the session it carries.
Close(r) ==
    /\ req[r].pc = "done"
    /\ issued' = IF req[r].status \in {200, 201} /\ req[r].session # NoToken
                 THEN issued \cup {req[r].session} ELSE issued
    /\ req' = [req EXCEPT ![r] = ClosedReq]
    /\ UNCHANGED <<identities, nextId, profiles, users, now>>

StartSignup(r) ==
    /\ CanStart(r)
    /\ \E i \in SignupInputs :
         req' = [req EXCEPT ![r] =
                   [IdleReq EXCEPT !.kind = "signup", !.pc = "create",
                      !.email = i.email, !.password = i.password,
                      !.username = i.username, !.full_name = i.full_name,
                      !.avatar_url = i.avatar_url]]
    /\ UNCHANGED <<identities, nextId, profiles, users, now, issued>>

StartLogin(r) ==
    /\ CanStart(r)
    /\ \E i \in LoginInputs :
         req' = [req EXCEPT ![r] =
                   [IdleReq EXCEPT !.kind = "login", !.pc = "signin",
                      !.email = i.email, !.password = i.password]]
    /\ UNCHANGED <<identities, nextId, profiles, users, now, issued>>

\* ---------------------------------------------------- POST /auth/signup ----
\* Validation, then step 1: auth.admin.createUser.
SignupCreate(r) ==
    /\ At(r, "signup", "create")
    /\ IF req[r].email = "" \/ req[r].password = "" \/ req[r].username = ""
       THEN /\ req' = [req EXCEPT ![r] =
                        Respond(r, 400, "email, password and username are required")]
            /\ UNCHANGED <<identities, nextId>>
       ELSE \E o \in Outcomes \cup {"nouser"} :
              CASE o = "throw" ->
                     /\ req' = [req EXCEPT ![r] = Respond500(r)]
                     /\ UNCHANGED <<identities, nextId>>
                [] o = "error" \/ ~CanCreateUser(req[r].email) ->
                     /\ req' = [req EXCEPT ![r] = Respond(r, 400, "create error")]
                     /\ UNCHANGED <<identities, nextId>>
                [] OTHER ->
                     /\ identities' = identities \cup
                          {[id |-> IdNames[nextId], email |-> req[r].email,
                            password |-> req[r].password]}
                     /\ nextId' = nextId + 1
                     /\ IF o = "nouser"
                        \* createResp carries no user: user.id throws
                        THEN req' = [req EXCEPT ![r] = Respond500(r)]
                        ELSE req' = [req EXCEPT ![r].pc = "insert",
                                                ![r].userId = IdNames[nextId],
                                                ![r].respEmail = req[r].email]
    /\ UNCHANGED <<profiles, users, now, issued>>

\* Mutant: the test of insertResp.error is inverted.
SignupInsertInverted(r) ==
    /\ At(r, "signup", "insert")
    /\ \E o \in Outcomes :
         CASE o = "throw" ->
                /\ req' = [req EXCEPT ![r] = Respond500(r)]
                /\ UNCHANGED profiles
           [] o = "error" \/ \E p \in profiles : p.id = req[r].userId ->
                /\ req' = [req EXCEPT ![r].pc = "signin"]
                /\ UNCHANGED profiles
           [] OTHER ->
                /\ profiles' = profiles \cup
                     {NewProfile(req[r].userId, req[r].username,
                                 req[r].full_name, req[r].avatar_url)}
                /\ req' = [req EXCEPT ![r].pc = "rollback",
                                      ![r].insertError = "insert error",
                                      ![r].wroteId = req[r].userId]
    /\ UNCHANGED <<identities, nextId, users, now, issued>>

\* Step 2: insert the profile row; on error go to the rollback.
SignupInsert(r) ==
    /\ At(r, "signup", "insert")
    /\ \E o \in Outcomes :
         CASE o = "throw" ->
                /\ req' = [req EXCEPT ![r] = Respond500(r)]
                /\ UNCHANGED profiles
           [] o = "error" \/ \E p \in profiles : p.id = req[r].userId ->
                /\ req' = [req EXCEPT ![r].pc = "rollback",
                                      ![r].insertError = "insert error"]
                /\ UNCHANGED profiles
           [] OTHER ->
                /\ profiles' = profiles \cup
                     {NewProfile(req[r].userId, req[r].username,
                                 req[r].full_name, req[r].avatar_url)}
                /\ req' = [req EXCEPT ![r].pc = "signin",
                                      ![r].wroteId = req[r].userId]
    /\ UNCHANGED <<identities, nextId, users, now, issued>>

\* Mutant: deleteUser without .catch(() => {}).
SignupRollbackNoCatch(r) ==
    /\ At(r, "signup", "rollback")
    /\ \E o \in Outcomes :
         /\ identities' = IF o = "ok"
                          THEN identities \ IdentityById(req[r].userId)
                          ELSE identities
         /\ req' = [req EXCEPT ![r] =
                      [(IF o = "throw" THEN Respond500(r)
                        ELSE Respond(r, 400, req[r].insertError))
                         EXCEPT !.rollback = o]]
    /\ UNCHANGED <<nextId, profiles, users, now, issued>>

\* Rollback: auth.admin.deleteUser(userId).catch(() => {}), then 400.
SignupRollback(r) ==
    /\ At(r, "signup", "rollback")
    /\ \E o \in Outcomes :
         /\ identities' = IF o = "ok"
                          THEN identities \ IdentityById(req[r].userId)
                          ELSE identities
         /\ req' = [req EXCEPT ![r] =
                      [Respond(r, 400, req[r].insertError)
                         EXCEPT !.rollback = o]]
    /\ UNCHANGED <<nextId, profiles, users, now, issued>>

\* Mutant: a failed sign-in rolls the identity back too.
SignupSignInRollsBack(r) ==
    /\ At(r, "signup", "signin")
    /\ \E o \in Outcomes :
         LET who == SignInWithPassword(req[r].email, req[r].password) IN
         CASE o = "throw" ->
                /\ req' = [req EXCEPT ![r] = Respond500(r)]
                /\ UNCHANGED identities
           [] o = "error" \/ who = {} ->
                /\ req' = [req EXCEPT ![r] = Respond(r, 400, "sign-in error")]
                /\ identities' = identities \ IdentityById(req[r].userId)
           [] OTHER ->
                /\ \E u \in who :
                     req' = [req EXCEPT ![r].pc = "fetch",
                                        ![r].session = TokenOf(u.id)]
                /\ UNCHANGED identities
    /\ UNCHANGED <<nextId, profiles, users, now, issued>>

\* Step 3: sign in with the same credentials.
SignupSignIn(r) ==
    /\ At(r, "signup", "signin")
    /\ \E o \in Outcomes :
         LET who == SignInWithPassword(req[r].email, req[r].password) IN
         CASE o = "throw" -> req' = [req EXCEPT ![r] = Respond500(r)]
           [] o = "error" \/ who = {} ->
                req' = [req EXCEPT ![r] = Respond(r, 400, "sign-in error")]
           [] OTHER ->
                \E u \in who :
                  req' = [req EXCEPT ![r].pc = "fetch",
                                     ![r].session = TokenOf(u.id)]
    /\ UNCHANGED <<identities, nextId, profiles, users, now, issued>>

\* Step 4: read the profile back and answer 201.
SignupFetch(r) ==
    /\ At(r, "signup", "fetch")
    /\ \E o \in Outcomes :
         CASE o = "throw" ->
                req' = [req EXCEPT ![r] = [Respond500(r) EXCEPT !.session = NoToken]]
           [] OTHER ->
                LET row == IF o = "error" THEN <<>> ELSE SelectSingle(req[r].userId)
                IN req' = [req EXCEPT ![r] =
                             [Respond(r, 201, "") EXCEPT
                                !.respUserId = req[r].userId,
                                !.profile = row,
                                !.readId = req[r].userId]]
    /\ UNCHANGED <<identities, nextId, profiles, users, now, issued>>

\* ----------------------------------------------------- POST /auth/login ----
LoginSignIn(r) ==
    /\ At(r, "login", "signin")
    /\ IF req[r].email = "" \/ req[r].password = ""
       THEN req' = [req EXCEPT ![r] = Respond(r, 400, "email and password required")]
       ELSE \E o \in Outcomes \cup {"nouser"} :
              LET who == SignInWithPassword(req[r].email, req[r].password) IN
              CASE o = "throw" -> req' = [req EXCEPT ![r] = Respond500(r)]
                [] o = "error" \/ who = {} ->
                     req' = [req EXCEPT ![r] = Respond(r, 401, "sign-in error")]
                [] o = "nouser" ->
                     req' = [req EXCEPT ![r] =
                               Respond(r, 500, "could not get user after sign-in")]
                [] OTHER ->
                     \E u \in who :
                       req' = [req EXCEPT ![r].pc = "fetch",
                                          ![r].userId = u.id,
                                          ![r].session = TokenOf(u.id)]
    /\ UNCHANGED <<identities, nextId, profiles, users, now, issued>>

LoginFetch(r) ==
    /\ At(r, "login", "fetch")
    /\ \E o \in Outcomes :
         CASE o = "throw" ->
                req' = [req EXCEPT ![r] = [Respond500(r) EXCEPT !.session = NoToken]]
           [] OTHER ->
                LET row == IF o = "error" THEN <<>> ELSE SelectSingle(req[r].userId)
                IN req' = [req EXCEPT ![r] =
                             [Respond(r, 200, "") EXCEPT
                                !.profile = row, !.readId = req[r].userId]]
    /\ UNCHANGED <<identities, nextId, profiles, users, now, issued>>


\* ------------------------------------------------ bearer-token routes ----
\* Authorization headers a client may send: none, well-formed with a token
\* it was given or a forged one, and malformed ones around a real token.
Headers ==
    {<<>>, <<"Bearer", " ">>, <<"Bearer", " ", BogusToken>>}
    \cup {<<"Bearer", " ", t>> : t \in issued}
    \cup {<<"Basic", " ", t>> : t \in issued}

WellFormed(h) == Len(h) = 3 /\ h[1] = "Bearer" /\ h[2] = " " /\ h[3] # ""

Bodies ==
    { EmptyBody,
      [EmptyBody EXCEPT !.email = "z@x"],
      [EmptyBody EXCEPT !.full_name = "Ann", !.id = "u9"],
      [EmptyBody EXCEPT !.full_name = "Bea"],
      [EmptyBody EXCEPT !.username = "al", !.avatar_url = "pic2",
                        !.role = "admin"] }

StartGet(r) ==
    /\ CanStart(r)
    /\ \E h \in Headers :
         req' = [req EXCEPT ![r] =
                   [IdleReq EXCEPT !.kind = "get", !.pc = "resolve",
                                   !.header = h]]
    /\ UNCHANGED <<identities, nextId, profiles, users, now, issued>>

StartPut(r) ==
    /\ CanStart(r)
    /\ \E h \in Headers, b \in Bodies :
         /\ WellFormed(h) \/ b = [EmptyBody EXCEPT !.full_name = "Bea"]
         /\ req' = [req EXCEPT ![r] =
                      [IdleReq EXCEPT !.kind = "put", !.pc = "resolve",
                                      !.header = h, !.body = b]]
    /\ UNCHANGED <<identities, nextId, profiles, users, now, issued>>

\* getBearerToken and auth.getUser(token), as both routes start.  The
\* result is <<status, error>> of the 401/500 answer, or <<0, id>>.
ResolveOutcomes == Outcomes \cup {"nouser"}
Resolve(header, o) ==
    LET token == getBearerToken(header)
        who == TokenOwner(token)
    IN  IF Falsy(token)
        THEN <<401, "missing access token in Authorization header">>
        ELSE CASE o = "throw" -> <<500, "internal server error">>
               [] o = "error" \/ who = {} -> <<401, "token error">>
               [] o = "nouser" -> <<401, "invalid token">>
               [] OTHER -> <<0, (CHOOSE u \in who : TRUE).id>>

\* ------------------------------------------------------ GET /auth/profile
GetResolve(r) ==
    /\ At(r, "get", "resolve")
    /\ \E o \in ResolveOutcomes :
         LET res == Resolve(req[r].header, o) IN
         req' = IF res[1] # 0
                THEN [req EXCEPT ![r] = Respond(r, res[1], res[2])]
                ELSE [req EXCEPT ![r].pc = "fetch", ![r].userId = res[2]]
    /\ UNCHANGED <<identities, nextId, profiles, users, now, issued>>

GetFetch(r) ==
    /\ At(r, "get", "fetch")
    /\ \E o \in Outcomes :
         LET row == IF o = "error" THEN <<>> ELSE SelectSingle(req[r].userId) IN
         CASE o = "throw" -> req' = [req EXCEPT ![r] = Respond500(r)]
           [] row = <<>> ->
                req' = [req EXCEPT ![r] =
                          [Respond(r, 404, "profile error") EXCEPT
                             !.readId = req[r].userId]]
           [] OTHER ->
                req' = [req EXCEPT ![r] =
                          [Respond(r, 200, "") EXCEPT
                             !.profile = row, !.readId = req[r].userId]]
    /\ UNCHANGED <<identities, nextId, profiles, users, now, issued>>

\* ------------------------------------------------------ PUT /auth/profile
\* Token resolution, then the allow-list and the updated_at stamp; the
\* clock has advanced since it was last read.
PutResolve(r) ==
    /\ At(r, "put", "resolve")
    /\ \E o \in ResolveOutcomes :
         LET res == Resolve(req[r].header, o)
             t == now + 1
             updates == BuildUpdates(req[r].body)
         IN  IF res[1] # 0
             THEN /\ req' = [req EXCEPT ![r] = Respond(r, res[1], res[2])]
                  /\ now' = now
             ELSE IF Keys(updates) = {}
             THEN /\ req' = [req EXCEPT ![r] =
                               [Respond(r, 400, "no updatable fields provided")
                                  EXCEPT !.userId = res[2]]]
                  /\ now' = now
             ELSE /\ req' = [req EXCEPT ![r].pc = "update",
                                        ![r].userId = res[2],
                                        ![r].updates = updates,
                                        ![r].stamp = t]
                  /\ now' = t
    /\ UNCHANGED <<identities, nextId, profiles, users, issued>>

PutUpdate(r) ==
    /\ At(r, "put", "update")
    /\ \E o \in Outcomes :
         CASE o = "throw" ->
                /\ req' = [req EXCEPT ![r] = Respond500(r)]
                /\ UNCHANGED profiles
           [] o = "error" \/ UnknownColumn(req[r].updates) ->
                /\ req' = [req EXCEPT ![r] = Respond(r, 400, "update error")]
                /\ UNCHANGED profiles
           [] OTHER ->
                /\ profiles' = StoreUpdate(profiles, req[r].userId,
                                           req[r].updates, req[r].stamp)
                /\ req' = [q \in Requests |->
                     IF q = r
                     THEN [req[r] EXCEPT !.pc = "fetch",
                             !.wroteId = req[r].userId,
                             !.matched = \E p \in profiles :
                                           p.id = req[r].userId,
                             !.repeat = \E p \in profiles :
                                          /\ p.id = req[r].userId
                                          /\ Carries(p, req[r].updates)]
                     ELSE IF /\ req[q].kind = "put" /\ req[q].pc = "fetch"
                             /\ req[q].userId = req[r].userId
                     THEN [req[q] EXCEPT !.raced = TRUE]
                     ELSE req[q]]
    /\ UNCHANGED <<identities, nextId, users, now, issued>>

PutFetch(r) ==
    /\ At(r, "put", "fetch")
    /\ \E o \in Outcomes :
         CASE o = "throw" -> req' = [req EXCEPT ![r] = Respond500(r)]
           [] OTHER ->
                LET row == IF o = "error" THEN <<>> ELSE SelectSingle(req[r].userId)
                IN req' = [req EXCEPT ![r] =
                             [Respond(r, 200, "") EXCEPT
                                !.profile = row, !.readId = req[r].userId]]
    /\ UNCHANGED <<identities, nextId, profiles, users, now, issued>>

\* ------------------------------------------------- /api/users (legacy) ----
RegisterInputs ==
    { [email |-> "a@x", password |-> "pw2"] }

LegacyLoginInputs ==
    { [email |-> "a@x", password |-> "pw1"],
      [email |-> "a@x", password |-> "pw2"],
      [email |-> "a@x", password |-> Absent] }

StartLegacy(r) ==
    /\ CanStart(r)
    /\ \/ \E i \in RegisterInputs :
            req' = [req EXCEPT ![r] =
                      [IdleReq EXCEPT !.kind = "register", !.pc = "query",
                         !.email = i.email, !.password = i.password]]
       \/ \E i \in LegacyLoginInputs :
            req' = [req EXCEPT ![r] =
                      [IdleReq EXCEPT !.kind = "legacylogin", !.pc = "query",
                         !.email = i.email, !.password = i.password]]
       \/ req' = [req EXCEPT ![r] =
                    [IdleReq EXCEPT !.kind = "list", !.pc = "query"]]
    /\ UNCHANGED <<identities, nextId, profiles, users, now, issued>>

\* registerUser: hash, INSERT ... RETURNING *, inside try/catch.
registerUser(r) ==
    /\ At(r, "register", "query")
    /\ \E o \in LegacyOutcomes, salt \in Salts :
         IF o = "throw" \/ req[r].password = Absent
         THEN /\ req' = [req EXCEPT ![r] = Respond(r, 500, "err.message")]
              /\ UNCHANGED users
         ELSE LET row == [id |-> Len(users) + 1, name |-> "Al",
                          email |-> req[r].email,
                          password |-> Hash(req[r].password, salt),
                          skills |-> "js"]
              IN /\ users' = Append(users, row)
                 /\ req' = [req EXCEPT ![r] =
                              [Respond(r, 200, "") EXCEPT !.rows = <<row>>]]
    /\ UNCHANGED <<identities, nextId, profiles, now, issued>>

\* Mutant: the result of bcrypt.compare is not tested.
loginUserNoCompare(r) ==
    /\ At(r, "legacylogin", "query")
    /\ \E o \in LegacyOutcomes :
         LET rows == SelectByEmail(req[r].email) IN
         CASE o = "throw" -> req' = [req EXCEPT ![r] = HungReq]
           [] rows = <<>> ->
                req' = [req EXCEPT ![r] = Respond(r, 400, "No such user")]
           [] req[r].password = Absent ->
                req' = [req EXCEPT ![r] = HungReq]
           [] OTHER ->
                req' = [req EXCEPT ![r] =
                          [Respond(r, 200, "") EXCEPT
                             !.token = "jwt", !.rows = <<rows[1]>>]]
    /\ UNCHANGED <<identities, nextId, profiles, users, now, issued>>

\* loginUser: no try/catch; a rejected await leaves the request unanswered.
loginUser(r) ==
    /\ At(r, "legacylogin", "query")
    /\ \E o \in LegacyOutcomes :
         LET rows == SelectByEmail(req[r].email) IN
         CASE o = "throw" -> req' = [req EXCEPT ![r] = HungReq]
           [] rows = <<>> ->
                req' = [req EXCEPT ![r] = Respond(r, 400, "No such user")]
           [] req[r].password = Absent ->
                \* bcrypt.compare(undefined, hash) rejects
                req' = [req EXCEPT ![r] = HungReq]
           [] ~Compare(req[r].password, rows[1].password) ->
                req' = [req EXCEPT ![r] = Respond(r, 400, "Wrong password")]
           [] OTHER ->
                req' = [req EXCEPT ![r] =
                          [Respond(r, 200, "") EXCEPT
                             !.token = "jwt", !.rows = <<rows[1]>>]]
    /\ UNCHANGED <<identities, nextId, profiles, users, now, issued>>

\* getAllUsers: no try/catch.
getAllUsers(r) ==
    /\ At(r, "list", "query")
    /\ \E o \in LegacyOutcomes :
         IF o = "throw"
         THEN req' = [req EXCEPT ![r] = HungReq]
         ELSE req' = [req EXCEPT ![r] =
                        [Respond(r, 200, "") EXCEPT !.rows = Listing(users)]]
    /\ UNCHANGED <<identities, nextId, profiles, users, now, issued>>

----------------------------------------------------------------------------
\* The service starts on an empty store, or on one an earlier signup of
\* alice (and a legacy registration) has left behind, with her session.
Init ==
    /\ \/ /\ identities = {}
          /\ nextId = 1
          /\ profiles = {}
          /\ users = <<>>
          /\ issued = {}
       \/ /\ identities = {[id |-> IdNames[1], email |-> "a@x", password |-> "pw1"]}
          /\ nextId = 2
          /\ profiles = {NewProfile(IdNames[1], "alice", "", "")}
          /\ users = <<[id |-> 1, name |-> "Al", email |-> "a@x",
                        password |-> Hash("pw1", "s1"), skills |-> "js"]>>
          /\ issued = {TokenOf(IdNames[1])}
       \/ /\ identities = {[id |-> IdNames[1], email |-> "a@x", password |-> "pw1"]}
          /\ nextId = 2
          /\ profiles = {}
          /\ users = <<>>
          /\ issued = {TokenOf(IdNames[1])}
    /\ now = 1
    /\ req = [r \in Requests |-> IdleReq]

Next ==
    \E r \in Requests :
        \/ StartSignup(r)
        \/ StartLogin(r)
        \/ SignupCreate(r)
        \/ SignupInsert(r)
        \/ SignupRollback(r)
        \/ SignupSignIn(r)
        \/ SignupFetch(r)
        \/ LoginSignIn(r)
        \/ LoginFetch(r)
        \/ StartGet(r)
        \/ GetResolve(r)
        \/ GetFetch(r)
        \/ StartPut(r)
        \/ PutResolve(r)
        \/ PutUpdate(r)
        \/ PutFetch(r)
        \/ StartLegacy(r)
        \/ registerUser(r)
        \/ loginUser(r)
        \/ getAllUsers(r)
        \/ Close(r)

Spec == Init /\ [][Next]_vars

----------------------------------------------------------------------------
\* Properties.

Done(r) == req[r].pc = "done"
\* The request whose handler takes the step.
Steps(r) == req[r].pc \notin {"idle", "done"} /\ req'[r].pc # req[r].pc
\* The answer of a catch block.
Caught(q) == q.status = 500 /\ q.error = "internal server error"
Stored == Columns \ {"updated_at"}

\* C1 -- every profile row's id is the id of an existing identity, except
\* while a signup's compensating delete is in progress; a profile row is
\* inserted only for an identity that exists, and an identity is deleted
\* only by the rollback of the signup whose profile insert failed.
C1_RollingBack(id) ==
    \E r \in Requests :
        req[r].kind = "signup" /\ req[r].pc = "rollback" /\ req[r].userId = id
C1_Inv ==
    \A p \in profiles : IdentityById(p.id) # {} \/ C1_RollingBack(p.id)
C1_Step ==
    /\ \A p \in profiles' :
         (\A q \in profiles : q.id # p.id) => IdentityById(p.id) # {}
    /\ \A u \in identities \ identities' :
         \E r \in Requests :
            /\ req[r].kind = "signup" /\ req[r].pc = "rollback"
            /\ req[r].insertError # "" /\ req[r].userId = u.id
            /\ Steps(r)
C1_ProfilesHaveIdentity == [][C1_Inv /\ C1_Inv' /\ C1_Step]_vars
C1_Witness ==
    /\ profiles # {}
    /\ \E r \in Requests :
         Done(r) /\ req[r].kind = "signup" /\ req[r].rollback = "ok"

\* C2 -- a signup whose profile insert returned an error answers 400 with
\* the insert error and no session, whatever the compensating delete did;
\* and once the delete took effect the identity is gone and a sign-in with
\* the same email and password authenticates nobody.
C2_Resp(r) ==
    (Done(r) /\ req[r].kind = "signup" /\ req[r].insertError # "") =>
        /\ req[r].status = 400
        /\ req[r].error = req[r].insertError
        /\ req[r].session = NoToken
        /\ req[r].rollback \in Outcomes
        /\ req[r].rollback = "ok" =>
             /\ IdentityById(req[r].userId) = {}
             /\ SignInWithPassword(req[r].email, req[r].password) = {}
C2_InsertFailureAnswers400 == \A r \in Requests : C2_Resp(r)
C2_Witness ==
    \E r \in Requests :
        /\ Done(r) /\ req[r].kind = "signup" /\ req[r].insertError # ""
        /\ req[r].rollback = "ok" /\ req[r].status = 400

\* C3 -- a 201 of signup carries a profile, not null, whose id is the id of
\* the user of the same response.
C3_SignupReturnsProfile ==
    \A r \in Requests :
        (Done(r) /\ req[r].kind = "signup" /\ req[r].status = 201) =>
            /\ req[r].profile # <<>>
            /\ req[r].profile[1].id = req[r].respUserId

\* C4 -- a login whose password does not match the credential stored for
\* its email gets no session or token and no 2xx: POST /auth/login answers
\* 401 (500 from its catch block if the sign-in call rejects), POST
\* /api/users/login answers 400 (or nothing at all if a call rejects).
C4_Step ==
    \A r \in Requests :
        /\ ( /\ req[r].kind = "login" /\ req[r].pc = "signin" /\ Steps(r)
             /\ req[r].email # "" /\ req[r].password # ""
             /\ IdentityByEmail(req[r].email) # {}
             /\ SignInWithPassword(req[r].email, req[r].password) = {} ) =>
               /\ req'[r].pc = "done"
               /\ req'[r].session = NoToken
               /\ req'[r].status = 401 \/ Caught(req'[r])
        /\ ( /\ req[r].kind = "legacylogin" /\ req[r].pc = "query" /\ Steps(r)
             /\ req[r].password # Absent
             /\ SelectByEmail(req[r].email) # <<>>
             /\ SelectByEmail(req[r].email)[1].password
                  # Hash(req[r].password, SelectByEmail(req[r].email)[1].password[2]) ) =>
               \/ req'[r].pc = "uncaught"
               \/ /\ req'[r].pc = "done" /\ req'[r].status = 400
                  /\ req'[r].token = NoToken /\ req'[r].session = NoToken
C4_WrongPasswordNoSession == [][C4_Step]_vars
C4_Witness ==
    \E r \in Requests :
        /\ Done(r) /\ req[r].kind = "login" /\ req[r].status = 401
        /\ req[r].password # ""
        /\ IdentityByEmail(req[r].email) # {}
        /\ SignInWithPassword(req[r].email, req[r].password) = {}

\* C5 -- a step of PUT /auth/profile changes no stored data but the
\* allow-listed columns its body names, to the values given, and updated_at,
\* of existing rows; a body without an allow-listed field ends in 400 (once
\* the token is resolved) and writes nothing.
C5_NoAllowed(body) == \A k \in allowed : body[k] = Absent
C5_Step ==
    \A r \in Requests :
        (req[r].kind = "put" /\ Steps(r)) =>
            /\ identities' = identities /\ users' = users
            /\ Cardinality(profiles') = Cardinality(profiles)
            /\ \A p \in profiles : \E q \in profiles' :
                 /\ q.id = p.id
                 /\ \A k \in Stored :
                      q[k] # p[k] =>
                          /\ k \in {"username", "full_name", "avatar_url", "role"}
                          /\ req[r].body[k] # Absent
                          /\ q[k] = req[r].body[k]
            /\ C5_NoAllowed(req[r].body) =>
                 /\ profiles' = profiles
                 /\ req'[r].pc = "done"
                 /\ req'[r].wroteId = NoId
                 /\ req'[r].userId # NoId =>
                      /\ req'[r].status = 400
                      /\ req'[r].error = "no updatable fields provided"
C5_OnlyAllowListWritten == [][C5_Step]_vars
C5_Witness ==
    \E r \in Requests :
        /\ Done(r) /\ req[r].kind = "put" /\ req[r].status = 200
        /\ req[r].body.id # Absent /\ req[r].body.full_name # Absent
        /\ \E p \in profiles :
             /\ p.id = req[r].userId
             /\ p.full_name = req[r].body.full_name
             /\ p.updated_at = req[r].stamp

\* C6 -- GET and PUT /auth/profile answer 401 when the Authorization header
\* is absent or not "Bearer <token>", and 401 (500 from the catch block if
\* the call rejects) when the store resolves the token to no user; neither
\* reads or writes a profile then; and a profile is read or changed only for
\* the id of the user the token belongs to.
C6_Step ==
    \A r \in Requests :
        (req[r].kind \in {"get", "put"} /\ Steps(r)) =>
            LET h == req[r].header IN
            /\ (req[r].pc = "resolve" /\ ~WellFormed(h)) =>
                 /\ req'[r].pc = "done" /\ req'[r].status = 401
            /\ ( /\ req[r].pc = "resolve" /\ WellFormed(h)
                 /\ TokenOwner(h[3]) = {} ) =>
                   /\ req'[r].pc = "done"
                   /\ req'[r].status = 401 \/ Caught(req'[r])
            /\ (req'[r].pc = "done" /\ req'[r].status = 401) =>
                 /\ req'[r].readId = NoId /\ req'[r].wroteId = NoId
                 /\ req'[r].profile = <<>>
                 /\ profiles' = profiles
            /\ req'[r].readId # NoId =>
                 WellFormed(h) /\ TokenOf(req'[r].readId) = h[3]
            /\ \A p \in profiles \ profiles' :
                 WellFormed(h) /\ TokenOf(p.id) = h[3]
            /\ req'[r].profile # <<>> =>
                 WellFormed(h) /\ TokenOf(req'[r].profile[1].id) = h[3]
C6_BearerTokenRequired == [][C6_Step]_vars
C6_Witness ==
    \E r \in Requests :
        /\ Done(r) /\ req[r].kind \in {"get", "put"} /\ req[r].status = 401
        /\ Len(req[r].header) = 3 /\ req[r].header[1] = "Basic"
        /\ TokenOwner(req[r].header[3]) # {}
        /\ req[r].readId = NoId /\ req[r].wroteId = NoId

\* C7 -- every handler answers every request exactly once, whatever call
\* fails: no request is left without a response by an uncaught rejection.
C7_EveryHandlerCatches ==
    \A r \in Requests :
        /\ req[r].pc # "uncaught"
        /\ Done(r) => req[r].nresp = 1

\* C8 -- the store update of PUT /auth/profile leaves the row carrying the
\* submitted values, and applied to a row that already carries them (the
\* same request applied just before) it changes no stored column except
\* updated_at.
C8_BodyCarried(row, body) ==
    \A k \in allowed : body[k] # Absent => row[k] = body[k]
C8_Step ==
    \A r \in Requests :
        (req[r].kind = "put" /\ req[r].pc = "update" /\ req'[r].pc = "fetch") =>
            \A p \in profiles :
                p.id = req[r].userId =>
                    \E q \in profiles' :
                        /\ q.id = p.id
                        /\ C8_BodyCarried(q, req[r].body)
                        /\ C8_BodyCarried(p, req[r].body) =>
                             \A k \in Stored : q[k] = p[k]
C8_UpdateIdempotent == [][C8_Step]_vars
C8_Witness ==
    \E r \in Requests :
        /\ Done(r) /\ req[r].kind = "put" /\ req[r].status = 200
        /\ req[r].repeat
        /\ \E p \in profiles :
             /\ p.id = req[r].userId
             /\ C8_BodyCarried(p, req[r].body)
             /\ p.updated_at = req[r].stamp

C10_Resp(r) ==
    (Done(r) /\ req[r].kind = "signup" /\ req[r].status = 400
       /\ req[r].error = "sign-in error") =>
        /\ [id |-> req[r].userId, email |-> req[r].email,
            password |-> req[r].password] \in identities
        /\ \E p \in profiles : p.id = req[r].userId
        /\ ~CanCreateUser(req[r].email)
        /\ \E u \in SignInWithPassword(req[r].email, req[r].password) :
             u.id = req[r].userId
        /\ req[r].rollback = ""
C10_Step ==
    /\ \A r \in Requests : C10_Resp(r)'
    /\ \A r \in Requests :
         ( /\ req[r].kind = "signup" /\ req[r].pc = "create" /\ Steps(r)
           /\ req[r].email # "" /\ req[r].password # "" /\ req[r].username # ""
           /\ IdentityByEmail(req[r].email) # {} ) =>
             /\ req'[r].pc = "done"
             /\ req'[r].status = 400 \/ Caught(req'[r])
             /\ identities' = identities /\ profiles' = profiles
    /\ \A r \in Requests :
         (req[r].kind = "signup" /\ Steps(r) /\ ~(identities \subseteq identities')) =>
             req[r].pc = "rollback" /\ req[r].insertError # ""
C10_SignInFailureKeepsAccount == [][C10_Step]_vars
C10_Witness ==
    \E r \in Requests :
        /\ Done(r) /\ req[r].kind = "signup" /\ req[r].status = 400
        /\ req[r].error = "sign-in error"
        /\ IdentityById(req[r].userId) # {}
====
